---- MODULE Spec2Model ----
(***************************************************************************)
(* Model of packages/worker/src/utilities/email.js: the three exported     *)
(* entry points sendEmail, isEmailConfigured and verifyConfig, with the    *)
(* helpers createSMTPTransport, getLinkCode, buildEmail and                *)
(* getSmtpConfiguration.  Every call is an async function: it runs         *)
(* synchronously up to its next await of a collaborator (config store,     *)
(* template store, code issuer, settings context, substitution engine,     *)
(* mail transport) and is resumed by that collaborator's reply, which is   *)
(* either a value or a failure.  One action = one such synchronous run.    *)
(*                                                                         *)
(* JavaScript values: objects are records (a missing property is a missing *)
(* field), null/undefined objects are Null, strings are strings.           *)
(***************************************************************************)
EXTENDS Naturals, Sequences, FiniteSets, TLC

VARIABLES
    calls,          \* per invocation: its arguments, locals, position and log
    configStore,    \* the config documents of the global database
    templateStore,  \* purpose -> template fragment or Null
    processTls,     \* the process-wide TLS setting (never written by email.js)
    concurrency     \* how many invocations may be in flight in this run

vars == <<calls, configStore, templateStore, processTls, concurrency>>

----------------------------------------------------------------------------
(* Bounds *)

NumCalls == 2
MaxMissing == 1

Calls == 1..NumCalls

----------------------------------------------------------------------------
(* Constants of the program *)

INVITATION == "invitation"
PASSWORD_RECOVERY == "password_recovery"
WELCOME == "welcome"
BASE == "base"
STYLES == "styles"

EmailTemplatePurpose == {INVITATION, PASSWORD_RECOVERY, WELCOME, BASE, STYLES}

FULL_EMAIL_PURPOSES == {INVITATION, PASSWORD_RECOVERY, WELCOME}

TYPE == "email"
SMTP == "smtp"

Null == [null |-> TRUE]
NoGroup == "null"

Has(obj, k) == k \in DOMAIN obj

\* JavaScript truthiness of a property that is a boolean or missing
Truthy(obj, k) == Has(obj, k) /\ obj[k]

\* {...a, ...b}: the keys of b override those of a
Spread(a, b) == [k \in DOMAIN a \cup DOMAIN b |-> IF k \in DOMAIN b THEN b[k] ELSE a[k]]

----------------------------------------------------------------------------
(* Failures *)

ErrNoConfig == [message |-> "Unable to find SMTP configuration."]
ErrUnsupported(purpose) == [message |-> "Unable to build an email of type", purpose |-> purpose]
ErrMissingBase == [message |-> "Unable to build email, missing base components"]
ErrTypeError == [message |-> "TypeError: Cannot read property '_id' of null"]
ErrCollaborator(who) == [message |-> "collaborator failure", from |-> who]

NotCalled == [kind |-> "none"]
Pending == [kind |-> "pending"]
Return(v) == [kind |-> "return", value |-> v]
Throw(e) == [kind |-> "throw", error |-> e]

----------------------------------------------------------------------------
(* Values the collaborators hold *)

GlobalConfig ==
    [host |-> "smtp.example.com", port |-> 587,
     auth |-> [user |-> "mailer", pass |-> "secret"],
     from |-> "noreply@example.com", subject |-> "Budibase"]

GroupConfig ==
    [host |-> "mail.group1.local", port |-> 465, secure |-> TRUE, selfSigned |-> TRUE,
     from |-> "group1@example.com", subject |-> "Group one"]

StrictConfig ==
    [host |-> "smtp.strict.example", port |-> 25, secure |-> FALSE, selfSigned |-> FALSE,
     auth |-> [user |-> "admin", pass |-> "pw"],
     from |-> "admin@example.com", subject |-> "Check"]

MailConfigurations == {GlobalConfig, GroupConfig, StrictConfig}

Group1 == "group1"
GroupIds == {NoGroup, Group1}

GlobalDoc == [type |-> SMTP, scope |-> "global", config |-> GlobalConfig]
GroupDoc == [type |-> SMTP, scope |-> Group1, config |-> GroupConfig]
\* the platform settings document: a config of another type, which an SMTP
\* query must never return.  Its bindings may use the names the composer
\* binds itself.
PlainBindings == [platformUrl |-> "http://localhost:10000"]
ClashingBindings ==
    [platformUrl |-> "http://localhost:10000",
     email |-> "settings@example.com", user |-> [_id |-> "settings"],
     styles |-> [rendered |-> "settings-styles", with |-> << >>],
     body |-> [rendered |-> "settings-body", with |-> << >>]]

SettingsDoc(bindings) == [type |-> "settings", scope |-> "global", config |-> bindings]

ConfigStores ==
    {S \cup {SettingsDoc(b)} :
        S \in SUBSET {GlobalDoc, GroupDoc}, b \in {PlainBindings, ClashingBindings}}

TemplateText(purpose) ==
    CASE purpose = BASE -> "<html><style>{{styles}}</style>{{body}}</html>"
      [] purpose = STYLES -> "a { color: {{color}} }"
      [] purpose = INVITATION -> "Join: {{inviteCode}}"
      [] purpose = PASSWORD_RECOVERY -> "Reset: {{resetCode}}"
      [] OTHER -> "Welcome {{email}}"

Fragment(purpose) == [contents |-> TemplateText(purpose)]

TemplateStoreWithout(missing) ==
    [p \in EmailTemplatePurpose |-> IF p \in missing THEN Null ELSE Fragment(p)]

TemplateStores ==
    {TemplateStoreWithout(m) :
        m \in {x \in SUBSET EmailTemplatePurpose : Cardinality(x) <= MaxMissing}}

Emails == {"ann@example.com", "bob@example.com"}
Recipients == <<"ann@example.com", "bob@example.com", "cat@example.com", "dan@example.com">>
User1 == [_id |-> "us_1", email |-> "ann@example.com"]
Users == {Null, User1}
Purposes == EmailTemplatePurpose \cup {"custom"}

----------------------------------------------------------------------------
(* Collaborators, at their interface *)

\* @budibase/auth determineScopedConfig: the single most specific document of
\* the queried type: the group's if the query names a group that has one,
\* else the global one, else nothing.
determineScopedConfig(db, params) ==
    LET ofType == {d \in db : d.type = params.type}
        scoped == {d \in ofType : Has(params, "group") /\ d.scope = params.group}
        global == {d \in ofType : d.scope = "global"}
    IN  IF scoped # {} THEN (CHOOSE d \in scoped : TRUE).config
        ELSE IF global # {} THEN (CHOOSE d \in global : TRUE).config
        ELSE Null

\* constants/templates getTemplateByPurpose: the fragment stored for the purpose
getTemplateByPurpose(store, type, purpose) ==
    IF type = TYPE /\ purpose \in DOMAIN store THEN store[purpose] ELSE Null

\* utilities/redis: the one-time codes, keyed by what they were requested for
getResetPasswordCode(userId) == [code |-> "reset", for |-> userId]
getInviteCode(email) == [code |-> "invite", for |-> email]

IssuerReply(req) ==
    IF req.fn = "getResetPasswordCode" THEN getResetPasswordCode(req.key)
    ELSE getInviteCode(req.key)

\* utilities/templates getSettingsTemplateContext: the platform's bindings,
\* with the purpose and the code it was asked for
getSettingsTemplateContext(db, purpose, code) ==
    Spread((CHOOSE d \in db : d.type = "settings").config,
           [purpose |-> purpose, code |-> code])

\* @budibase/string-templates processString: the rendering is a function of
\* the template and of the context it was given, and of nothing else
processString(template, context) == [rendered |-> template, with |-> context]

\* nodemailer createTransport / sendMail
createTransport(id, options) == [id |-> id, options |-> options]
DeliveryInfo(session, message) ==
    [accepted |-> message.to, via |-> session.options.host]

Undefined == [undefined |-> TRUE]

----------------------------------------------------------------------------
(* The helpers of email.js *)

\* createSMTPTransport: the options handed to nodemailer
SmtpOptions(config) ==
    LET options == [port |-> config.port, host |-> config.host,
                    secure |-> Truthy(config, "secure")]
        auth == IF Has(config, "auth") THEN [auth |-> config.auth] ELSE << >>
        tls == IF Truthy(config, "selfSigned")
               THEN [tls |-> [rejectUnauthorized |-> FALSE]] ELSE << >>
    IN  Spread(Spread(options, auth), tls)

\* (variant) relaxing validation through the process-wide setting
TlsSettingRelaxedForProcess(config, setting) ==
    IF Truthy(config, "selfSigned") THEN "relaxed" ELSE setting

\* what createSMTPTransport leaves in the process-wide TLS setting
TlsSettingAfter(config, setting) == setting

createSMTPTransport(id, config) == createTransport(id, SmtpOptions(config))

\* a session refuses an invalid certificate unless validation is relaxed for
\* the process or in its own options
ValidatesCertificates(session, setting) ==
    /\ setting = "strict"
    /\ ~(Has(session.options, "tls") /\ ~session.options.tls.rejectUnauthorized)

\* (variant) the reset code requested for the address instead of the user
getLinkCodeByEmail(purpose, email, user) ==
    CASE purpose = PASSWORD_RECOVERY ->
            IF user = Null THEN [kind |-> "throw", error |-> ErrTypeError]
            ELSE [kind |-> "call", fn |-> "getResetPasswordCode", key |-> email]
      [] purpose = INVITATION ->
            [kind |-> "call", fn |-> "getInviteCode", key |-> email]
      [] OTHER -> [kind |-> "value", value |-> Null]

\* (variant) a missing user tolerated: the reset code requested for no identity
getLinkCodeNullSafe(purpose, email, user) ==
    CASE purpose = PASSWORD_RECOVERY ->
            [kind |-> "call", fn |-> "getResetPasswordCode",
             key |-> IF user = Null THEN "undefined" ELSE user._id]
      [] purpose = INVITATION ->
            [kind |-> "call", fn |-> "getInviteCode", key |-> email]
      [] OTHER -> [kind |-> "value", value |-> Null]

\* getLinkCode up to its call of the code issuer: the request it makes, the
\* value it returns without one, or the failure of dereferencing a null user
getLinkCode(purpose, email, user) ==
    CASE purpose = PASSWORD_RECOVERY ->
            IF user = Null THEN [kind |-> "throw", error |-> ErrTypeError]
            ELSE [kind |-> "call", fn |-> "getResetPasswordCode", key |-> user._id]
      [] purpose = INVITATION ->
            [kind |-> "call", fn |-> "getInviteCode", key |-> email]
      [] OTHER -> [kind |-> "value", value |-> Null]

\* (variant) the group left out of the query
SmtpParamsUnscoped(groupId) == [type |-> SMTP]

\* getSmtpConfiguration: the query handed to determineScopedConfig
SmtpParams(groupId) ==
    IF groupId # NoGroup THEN [type |-> SMTP, group |-> groupId] ELSE [type |-> SMTP]

\* (variant) the settings spread last, over the composer's own bindings
BuildContextSettingsLast(settings, email, user) ==
    Spread([email |-> email, user |-> IF user = Null THEN << >> ELSE user], settings)

\* buildEmail lines 71-75 and 80-84: the two substitution contexts
BuildContext(settings, email, user) ==
    Spread(settings, [email |-> email, user |-> IF user = Null THEN << >> ELSE user])

\* (variant) the two rendered fragments bound to each other's name
BaseContextSwapped(context, styles, body) ==
    Spread(context, [styles |-> body, body |-> styles])

BaseContext(context, styles, body) ==
    Spread(context, [styles |-> styles, body |-> body])

\* (variant) the message addressed to the sender
BuildMessageToSender(config, email, html) ==
    [from |-> config.from, subject |-> config.subject, to |-> config.from, html |-> html]

\* sendEmail lines 131-136
BuildMessage(config, email, html) ==
    [from |-> config.from, subject |-> config.subject, to |-> email, html |-> html]

----------------------------------------------------------------------------
(* One invocation *)

Last(q) == q[Len(q)]
SetLast(q, v) == [q EXCEPT ![Len(q)] = v]

NoLookup == [st |-> "none"]
Slots == {"base", "styles", "body"}

IdleCall ==
    [pc |-> "idle", op |-> "none",
     email |-> "", purpose |-> "", groupId |-> NoGroup, user |-> Null, cfgArg |-> Null,
     queries |-> << >>, config |-> Null, transport |-> Null,
     lookups |-> [k \in Slots |-> NoLookup],
     base |-> "", styles |-> "", body |-> "",
     codeReqs |-> << >>, code |-> Null, settingsReqs |-> << >>, context |-> << >>,
     renders |-> << >>, build |-> NotCalled, sent |-> << >>, verifies |-> << >>,
     result |-> Pending]

\* the exported function settles
Finish(s, outcome) == [s EXCEPT !.pc = "done", !.result = outcome]

\* buildEmail rejects; sendEmail awaits it at line 135 without a catch
FailBuild(s, e) == Finish([s EXCEPT !.build = Throw(e)], Throw(e))

Query(params) == [params |-> params, st |-> "pending", reply |-> Null]

----------------------------------------------------------------------------
(* buildEmail, as the synchronous runs between its awaits *)

RequestRender(s, which, template, context, next) ==
    [s EXCEPT !.renders = Append(@, [which |-> which, template |-> template,
                                     context |-> context, done |-> FALSE, out |-> Null]),
              !.pc = next]

\* line 72: getSettingsTemplateContext(purpose, code)
RequestSettings(s, code) ==
    [s EXCEPT !.code = code,
              !.settingsReqs = Append(@, [purpose |-> s.purpose, code |-> code]),
              !.pc = "awaitSettings"]

\* line 70: const code = await getLinkCode(purpose, email, user)
ResolveLinkCode(s) ==
    LET r == getLinkCode(s.purpose, s.email, s.user)
    IN  CASE r.kind = "throw" -> FailBuild(s, r.error)
          [] r.kind = "call" ->
                [s EXCEPT !.codeReqs = Append(@, [fn |-> r.fn, key |-> r.key,
                                                  done |-> FALSE, reply |-> Null]),
                          !.pc = "awaitCode"]
          [] OTHER -> RequestSettings(s, r.value)

\* (variant) the link code requested before the fragments are checked
AfterTemplatesCodeFirst(s) ==
    LET text(l) == IF l.val = Null THEN "" ELSE l.val.contents
        t == ResolveLinkCode([s EXCEPT !.base = text(s.lookups.base),
                                       !.styles = text(s.lookups.styles),
                                       !.body = text(s.lookups.body)])
    IN  IF \E k \in Slots : s.lookups[k].val = Null
        THEN FailBuild(t, ErrMissingBase)
        ELSE t

\* (variant) an absent fragment filled with an empty template
AfterTemplatesDefaultFill(s) ==
    LET text(l) == IF l.val = Null THEN "" ELSE l.val.contents
    IN  ResolveLinkCode([s EXCEPT !.base = text(s.lookups.base),
                                  !.styles = text(s.lookups.styles),
                                  !.body = text(s.lookups.body)])

\* lines 62-70: all three lookups have resolved
AfterTemplates(s) ==
    LET base == s.lookups.base.val
        styles == s.lookups.styles.val
        body == s.lookups.body.val
    IN  IF base = Null \/ styles = Null \/ body = Null
        THEN FailBuild(s, ErrMissingBase)
        ELSE ResolveLinkCode([s EXCEPT !.base = base.contents,
                                       !.styles = styles.contents,
                                       !.body = body.contents])

IssueLookup(purpose) == [st |-> "pending", purpose |-> purpose]

\* (variant) no guard on the purpose
buildEmailUnguarded(s) ==
    [s EXCEPT !.lookups = [base |-> IssueLookup(BASE),
                           styles |-> IssueLookup(STYLES),
                           body |-> IssueLookup(s.purpose)],
              !.build = Pending,
              !.pc = "awaitTemplates"]

\* (variant) the link code requested together with the three lookups
buildEmailCodeInParallel(s) ==
    IF s.purpose \notin FULL_EMAIL_PURPOSES
    THEN FailBuild(s, ErrUnsupported(s.purpose))
    ELSE LET r == getLinkCode(s.purpose, s.email, s.user)
         IN  [s EXCEPT !.lookups = [base |-> IssueLookup(BASE),
                                    styles |-> IssueLookup(STYLES),
                                    body |-> IssueLookup(s.purpose)],
                       !.codeReqs = IF r.kind = "call"
                                    THEN Append(@, [fn |-> r.fn, key |-> r.key,
                                                    done |-> FALSE, reply |-> Null])
                                    ELSE @,
                       !.build = Pending,
                       !.pc = "awaitTemplates"]

\* lines 52-61: the guard and the three lookups of Promise.all
buildEmail(s) ==
    IF s.purpose \notin FULL_EMAIL_PURPOSES
    THEN FailBuild(s, ErrUnsupported(s.purpose))
    ELSE [s EXCEPT !.lookups = [base |-> IssueLookup(BASE),
                                styles |-> IssueLookup(STYLES),
                                body |-> IssueLookup(s.purpose)],
                   !.build = Pending,
                   !.pc = "awaitTemplates"]

\* (variant) the transport session constructed before the configuration is checked
SendEmailTransportFirst(c, s, config) ==
    IF config = Null
    THEN Finish([s EXCEPT !.transport = createTransport(c, << >>)], Throw(ErrNoConfig))
    ELSE buildEmail([s EXCEPT !.config = config,
                              !.transport = createSMTPTransport(c, config)])

\* (variant) the email composed before any transport session exists
SendEmailComposeFirst(c, s, config) ==
    IF config = Null
    THEN Finish(s, Throw(ErrNoConfig))
    ELSE buildEmail([s EXCEPT !.config = config])

\* sendEmail lines 127-135, resumed with the configuration
SendEmailAfterConfig(c, s, config) ==
    IF config = Null
    THEN Finish(s, Throw(ErrNoConfig))
    ELSE buildEmail([s EXCEPT !.config = config,
                              !.transport = createSMTPTransport(c, config)])

\* (variant) any settled lookup counts as a configuration
IsConfiguredAlways(s, config) ==
    Finish([s EXCEPT !.config = config], Return(TRUE))

\* isEmailConfigured line 111
IsConfiguredAfterConfig(s, config) ==
    Finish([s EXCEPT !.config = config], Return(config # Null))

----------------------------------------------------------------------------
(* Initial states *)

InitStores ==
    /\ configStore \in ConfigStores
    /\ templateStore \in TemplateStores
    /\ processTls = "strict"
    /\ calls = [c \in Calls |-> IdleCall]

Init == InitStores /\ concurrency = 1

\* several invocations in flight over one full store
InitConcurrent ==
    /\ configStore = {GlobalDoc, GroupDoc, SettingsDoc(ClashingBindings)}
    /\ templateStore = TemplateStoreWithout({})
    /\ processTls = "strict"
    /\ calls = [c \in Calls |-> IdleCall]
    /\ concurrency = NumCalls

\* the arguments of a sendEmail: any, when one invocation runs alone; an
\* invitation to the invocation's own recipient, in its own scope (the group
\* for odd invocations, none for even ones), when several run
SendEmailArgs(c) ==
    IF concurrency = 1
    THEN [email : Emails, purpose : Purposes, groupId : GroupIds, user : Users]
    ELSE [email : {Recipients[c]}, purpose : {INVITATION},
          groupId : {IF c % 2 = 1 THEN Group1 ELSE NoGroup}, user : {Null}]

----------------------------------------------------------------------------
(* Actions: the entry points *)

\* (variant) one transport session kept for the process and handed to every
\* invocation
SetShared(c, s) ==
    calls' = [d \in Calls |->
                IF d = c THEN s ELSE [calls[d] EXCEPT !.transport = s.transport]]

Set(c, s) == calls' = [calls EXCEPT ![c] = s]

Idle(c) == c <= concurrency /\ calls[c].pc = "idle"

\* (variant) the purpose checked before the configuration is looked up
sendEmailPurposeFirst(c) ==
    /\ Idle(c)
    /\ \E a \in SendEmailArgs(c) :
          LET s == [calls[c] EXCEPT !.op = "sendEmail",
                                    !.email = a.email, !.purpose = a.purpose,
                                    !.groupId = a.groupId, !.user = a.user]
          IN  Set(c, IF a.purpose \notin FULL_EMAIL_PURPOSES
                     THEN Finish(s, Throw(ErrUnsupported(a.purpose)))
                     ELSE [s EXCEPT !.pc = "awaitConfig",
                                    !.queries = Append(@, Query(SmtpParams(a.groupId)))])
    /\ UNCHANGED <<configStore, templateStore, processTls, concurrency>>

\* sendEmail lines 124-126: up to the await of the configuration
sendEmail(c) ==
    /\ Idle(c)
    /\ \E a \in SendEmailArgs(c) :
          Set(c, [calls[c] EXCEPT !.op = "sendEmail", !.pc = "awaitConfig",
                                  !.email = a.email, !.purpose = a.purpose,
                                  !.groupId = a.groupId, !.user = a.user,
                                  !.queries = Append(@, Query(SmtpParams(a.groupId)))])
    /\ UNCHANGED <<configStore, templateStore, processTls, concurrency>>

\* isEmailConfigured lines 108-110
isEmailConfigured(c) ==
    /\ Idle(c)
    /\ \E g \in GroupIds :
          Set(c, [calls[c] EXCEPT !.op = "isEmailConfigured", !.pc = "awaitConfig",
                                  !.groupId = g,
                                  !.queries = Append(@, Query(SmtpParams(g)))])
    /\ UNCHANGED <<configStore, templateStore, processTls, concurrency>>

\* (variant) the session built from host and port alone
verifyConfigPlain(c) ==
    /\ Idle(c)
    /\ \E config \in MailConfigurations :
          /\ Set(c, [calls[c] EXCEPT !.op = "verifyConfig", !.pc = "awaitVerify",
                                     !.cfgArg = config,
                                     !.transport = createTransport(c,
                                         [port |-> config.port, host |-> config.host]),
                                     !.verifies = Append(@, [session |-> c,
                                                             st |-> "pending"])])
          /\ processTls' = TlsSettingAfter(config, processTls)
    /\ UNCHANGED <<configStore, templateStore, concurrency>>

\* verifyConfig lines 145-147: up to the await of transport.verify()
verifyConfig(c) ==
    /\ Idle(c)
    /\ \E config \in MailConfigurations :
          /\ Set(c, [calls[c] EXCEPT !.op = "verifyConfig", !.pc = "awaitVerify",
                                     !.cfgArg = config,
                                     !.transport = createSMTPTransport(c, config),
                                     !.verifies = Append(@, [session |-> c,
                                                             st |-> "pending"])])
          /\ processTls' = TlsSettingAfter(config, processTls)
    /\ UNCHANGED <<configStore, templateStore, concurrency>>

----------------------------------------------------------------------------
(* Actions: a collaborator replies and the invocation runs to its next await *)

Frame == UNCHANGED <<configStore, templateStore, processTls, concurrency>>

\* determineScopedConfig resolves (lines 100, 110-111, 126-135)
ConfigResolved(c) ==
    LET q == Last(calls[c].queries)
        config == determineScopedConfig(configStore, q.params)
        s == [calls[c] EXCEPT !.queries = SetLast(@, [q EXCEPT !.st = "resolved",
                                                               !.reply = config])]
    IN  /\ s.pc = "awaitConfig"
        /\ IF s.op = "sendEmail"
           THEN /\ Set(c, SendEmailAfterConfig(c, s, config))
                /\ processTls' = IF config = Null THEN processTls
                                 ELSE TlsSettingAfter(config, processTls)
           ELSE /\ Set(c, IsConfiguredAfterConfig(s, config))
                /\ UNCHANGED processTls
        /\ UNCHANGED <<configStore, templateStore, concurrency>>

\* determineScopedConfig rejects: nothing in email.js catches it
ConfigFailed(c) ==
    /\ calls[c].pc = "awaitConfig"
    /\ Set(c, Finish([calls[c] EXCEPT !.queries =
                         SetLast(@, [Last(calls[c].queries) EXCEPT !.st = "failed"])],
                     Throw(ErrCollaborator("determineScopedConfig"))))
    /\ Frame

\* one lookup of Promise.all resolves (lines 57-70); the last one resumes buildEmail
TemplateResolved(c) ==
    /\ calls[c].pc = "awaitTemplates"
    /\ \E k \in Slots :
          LET s == calls[c]
              l == s.lookups[k]
              val == getTemplateByPurpose(templateStore, TYPE, l.purpose)
              s1 == [s EXCEPT !.lookups[k] =
                        [st |-> "done", purpose |-> l.purpose, val |-> val]]
          IN  /\ l.st = "pending"
              /\ Set(c, IF \A j \in Slots : s1.lookups[j].st = "done"
                        THEN AfterTemplates(s1) ELSE s1)
    /\ Frame

\* one lookup rejects: Promise.all rejects at once, and so does the call
TemplateFailed(c) ==
    /\ calls[c].pc = "awaitTemplates"
    /\ \E k \in Slots :
          LET s == calls[c]
              l == s.lookups[k]
          IN  /\ l.st = "pending"
              /\ Set(c, FailBuild([s EXCEPT !.lookups[k] =
                                      [st |-> "failed", purpose |-> l.purpose]],
                                  ErrCollaborator("getTemplateByPurpose")))
    /\ Frame

\* the code issuer replies (lines 37, 39, 70-72)
CodeIssued(c) ==
    LET s == calls[c]
        req == Last(s.codeReqs)
        reply == IssuerReply(req)
    IN  /\ s.pc = "awaitCode"
        /\ Set(c, RequestSettings(
                    [s EXCEPT !.codeReqs = SetLast(@, [req EXCEPT !.done = TRUE,
                                                                  !.reply = reply])],
                    reply))
        /\ Frame

CodeFailed(c) ==
    /\ calls[c].pc = "awaitCode"
    /\ Set(c, FailBuild(calls[c], ErrCollaborator("getLinkCode")))
    /\ Frame

\* (variant) the styles rendered first, the body never
SettingsResolvedStylesFirst(c) ==
    LET s == calls[c]
    IN  /\ s.pc = "awaitSettings"
        /\ LET req == Last(s.settingsReqs)
               settings == getSettingsTemplateContext(configStore, req.purpose, req.code)
               context == BuildContext(settings, s.email, s.user)
           IN  Set(c, RequestRender([s EXCEPT !.context = context],
                                    "styles", s.styles, context, "awaitStyles"))
        /\ Frame

\* the settings context arrives (lines 71-77)
SettingsResolved(c) ==
    LET s == calls[c]
    IN  /\ s.pc = "awaitSettings"
        /\ LET req == Last(s.settingsReqs)
               settings == getSettingsTemplateContext(configStore, req.purpose, req.code)
               context == BuildContext(settings, s.email, s.user)
           IN  Set(c, RequestRender([s EXCEPT !.context = context],
                                    "body", s.body, context, "awaitBody"))
        /\ Frame

SettingsFailed(c) ==
    /\ calls[c].pc = "awaitSettings"
    /\ Set(c, FailBuild(calls[c], ErrCollaborator("getSettingsTemplateContext")))
    /\ Frame

\* the pending render, completed by the substitution engine
RenderOut(s) == processString(Last(s.renders).template, Last(s.renders).context)
RenderDone(s) ==
    [s EXCEPT !.renders = SetLast(@, [Last(s.renders) EXCEPT !.done = TRUE,
                                                             !.out = RenderOut(s)])]

\* line 77 resolves, line 78 is called
BodyRendered(c) ==
    LET s == calls[c]
        s1 == [RenderDone(s) EXCEPT !.body = RenderOut(s)]
    IN  /\ s.pc = "awaitBody"
        /\ Set(c, RequestRender(s1, "styles", s1.styles, s1.context, "awaitStyles"))
        /\ Frame

\* line 78 resolves, lines 80-84 are called
StylesRendered(c) ==
    LET s == calls[c]
        s1 == [RenderDone(s) EXCEPT !.styles = RenderOut(s)]
    IN  /\ s.pc = "awaitStyles"
        /\ Set(c, RequestRender(s1, "base", s1.base,
                                BaseContext(s1.context, s1.styles, s1.body),
                                "awaitBase"))
        /\ Frame

\* lines 80-84 resolve: buildEmail returns, sendEmail submits (lines 131-137)
BaseRendered(c) ==
    LET s == calls[c]
        s1 == [RenderDone(s) EXCEPT !.build = Return(RenderOut(s))]
    IN  /\ s.pc = "awaitBase"
        /\ Set(c, [s1 EXCEPT !.sent = Append(@,
                                [session |-> s1.transport.id,
                                 message |-> BuildMessage(s1.config, s1.email,
                                                          s1.build.value),
                                 st |-> "pending", reply |-> Null]),
                             !.pc = "awaitSend"])
        /\ Frame

RenderFailed(c) ==
    /\ calls[c].pc \in {"awaitBody", "awaitStyles", "awaitBase"}
    /\ Set(c, FailBuild(calls[c], ErrCollaborator("processString")))
    /\ Frame

\* transport.sendMail settles (line 137)
MailSent(c) ==
    LET s == calls[c]
        info == DeliveryInfo(s.transport, Last(s.sent).message)
    IN  /\ s.pc = "awaitSend"
        /\ Set(c, Finish([s EXCEPT !.sent = SetLast(@, [Last(s.sent) EXCEPT
                                                           !.st = "delivered",
                                                           !.reply = info])],
                         Return(info)))
        /\ Frame

\* (variant) a failed submission is submitted again
MailFailedRetry(c) ==
    LET s == calls[c]
    IN  /\ s.pc = "awaitSend"
        /\ Set(c, [s EXCEPT !.sent = Append(SetLast(@, [Last(s.sent) EXCEPT
                                                           !.st = "failed"]),
                                            [Last(s.sent) EXCEPT !.st = "pending"])])
        /\ Frame

MailFailed(c) ==
    LET s == calls[c]
    IN  /\ s.pc = "awaitSend"
        /\ Set(c, Finish([s EXCEPT !.sent = SetLast(@, [Last(s.sent) EXCEPT
                                                           !.st = "failed"])],
                         Throw(ErrCollaborator("sendMail"))))
        /\ Frame

\* transport.verify settles (lines 147-148)
Verified(c) ==
    /\ calls[c].pc = "awaitVerify"
    /\ Set(c, Finish([calls[c] EXCEPT !.verifies =
                         SetLast(@, [Last(calls[c].verifies) EXCEPT !.st = "verified"])],
                     Return(Undefined)))
    /\ Frame

VerifyFailed(c) ==
    /\ calls[c].pc = "awaitVerify"
    /\ Set(c, Finish([calls[c] EXCEPT !.verifies =
                         SetLast(@, [Last(calls[c].verifies) EXCEPT !.st = "failed"])],
                     Throw(ErrCollaborator("verify"))))
    /\ Frame

Next ==
    \E c \in Calls :
        \/ sendEmail(c)
        \/ isEmailConfigured(c)
        \/ verifyConfig(c)
        \/ ConfigResolved(c)
        \/ ConfigFailed(c)
        \/ TemplateResolved(c)
        \/ TemplateFailed(c)
        \/ CodeIssued(c)
        \/ CodeFailed(c)
        \/ SettingsResolved(c)
        \/ SettingsFailed(c)
        \/ BodyRendered(c)
        \/ StylesRendered(c)
        \/ BaseRendered(c)
        \/ RenderFailed(c)
        \/ MailSent(c)
        \/ MailFailed(c)
        \/ Verified(c)
        \/ VerifyFailed(c)

Spec == Init /\ [][Next]_vars

SpecConcurrent == InitConcurrent /\ [][Next]_vars

----------------------------------------------------------------------------
(* Properties *)

ConfigAnswer(s) == Last(s.queries)

\* the configuration lookup of the call resolved, to this value
ConfigResolvedTo(s) ==
    IF s.queries # << >> /\ ConfigAnswer(s).st = "resolved"
    THEN {ConfigAnswer(s).reply} ELSE {}

\* nothing of a composition was started
NoComposition(s) ==
    /\ \A k \in Slots : s.lookups[k] = NoLookup
    /\ s.codeReqs = << >>
    /\ s.settingsReqs = << >>
    /\ s.renders = << >>

AllLookupsResolved(s) == \A k \in Slots : s.lookups[k].st = "done"
AbsentFragmentSeen(s) ==
    \E k \in Slots : s.lookups[k].st = "done" /\ s.lookups[k].val = Null

\* C1: a sendEmail whose configuration lookup resolves to absent fails with
\* the configuration-not-found failure; it constructs no transport session,
\* issues no template or link-code lookup, invokes no render and submits no
\* message.
C1_NoConfigurationNoDispatch ==
    \A c \in Calls :
        LET s == calls[c]
        IN  (s.op = "sendEmail" /\ ConfigResolvedTo(s) = {Null}) =>
                /\ s.pc = "done"
                /\ s.result = Throw(ErrNoConfig)
                /\ s.transport = Null
                /\ s.build = NotCalled
                /\ NoComposition(s)
                /\ s.sent = << >>

C1_Witness ==
    \E c \in Calls :
        /\ calls[c].op = "sendEmail"
        /\ calls[c].groupId = Group1
        /\ ConfigResolvedTo(calls[c]) = {Null}
        /\ calls[c].pc = "done"

\* C2: buildEmail called with a purpose outside the full purposes fails with
\* the unsupported-purpose failure, without any template lookup, link-code
\* request, settings-context request or render.
C2_UnsupportedPurposeNoLookups ==
    \A c \in Calls :
        LET s == calls[c]
        IN  (/\ s.op = "sendEmail"
             /\ ConfigResolvedTo(s) # {}
             /\ ConfigResolvedTo(s) # {Null}
             /\ s.purpose \notin {INVITATION, PASSWORD_RECOVERY, WELCOME}) =>
                /\ s.build = Throw(ErrUnsupported(s.purpose))
                /\ s.result = s.build
                /\ NoComposition(s)

C2_Witness ==
    \E c \in Calls :
        /\ calls[c].purpose = STYLES
        /\ calls[c].build = Throw(ErrUnsupported(STYLES))

\* C3 as stated: for a full purpose, once a template lookup has resolved to
\* absent no render happens, no document is returned, and the composition
\* ends in the "missing base components" failure.
C3_AbsentFragmentAlwaysMissingBase ==
    \A c \in Calls :
        LET s == calls[c]
        IN  (s.purpose \in {INVITATION, PASSWORD_RECOVERY, WELCOME}
             /\ AbsentFragmentSeen(s)) =>
                /\ s.renders = << >>
                /\ s.build.kind # "return"
                /\ (s.pc = "done" => s.build = Throw(ErrMissingBase))

\* C3 (amended): for a full purpose, once a template lookup has resolved to
\* absent no render happens and no document is returned; when all three
\* lookups have resolved the composition has failed with "missing base
\* components", and when another lookup failed instead it has failed with
\* that lookup's failure.
C3_AbsentFragmentNoRender ==
    \A c \in Calls :
        LET s == calls[c]
        IN  (s.purpose \in {INVITATION, PASSWORD_RECOVERY, WELCOME}
             /\ AbsentFragmentSeen(s)) =>
                /\ s.renders = << >>
                /\ s.build.kind # "return"
                /\ s.codeReqs = << >> /\ s.settingsReqs = << >>
                /\ (AllLookupsResolved(s) =>
                        s.pc = "done" /\ s.build = Throw(ErrMissingBase))
                /\ (s.pc = "done" /\ ~AllLookupsResolved(s) =>
                        /\ \E k \in Slots : s.lookups[k].st = "failed"
                        /\ s.build = Throw(ErrCollaborator("getTemplateByPurpose")))
                /\ (s.pc = "done" => s.result = s.build)

C3_Witness ==
    \E c \in Calls :
        /\ calls[c].purpose = WELCOME
        /\ AllLookupsResolved(calls[c])
        /\ calls[c].lookups.body.val = Null
        /\ calls[c].build = Throw(ErrMissingBase)

RenderOrder == <<"body", "styles", "base">>

\* C4: the renders of a composition are body, styles, base in that order,
\* each once and none started before the previous one completed; none starts
\* before the three template lookups and the link-code lookup completed; a
\* successful composition made all three.
C4_RenderOrder ==
    \A c \in Calls :
        LET s == calls[c]
            r == s.renders
        IN  /\ Len(r) <= 3
            /\ \A i \in 1..Len(r) :
                  /\ r[i].which = RenderOrder[i]
                  /\ (i < Len(r) => r[i].done)
            /\ (r # << >> =>
                  /\ AllLookupsResolved(s)
                  /\ \A i \in 1..Len(s.codeReqs) : s.codeReqs[i].done
                  /\ (s.purpose \in {INVITATION, PASSWORD_RECOVERY} =>
                         Len(s.codeReqs) = 1)
                  /\ Len(s.settingsReqs) = 1)
            /\ (s.build.kind = "return" =>
                  Len(r) = 3 /\ \A i \in 1..3 : r[i].done)

C4_Witness ==
    \E c \in Calls :
        /\ calls[c].purpose = INVITATION
        /\ calls[c].build.kind = "return"
        /\ Len(calls[c].renders) = 3

\* the context extended with the two rendered fragments
Extended(context, stylesOut, bodyOut) ==
    [k \in DOMAIN context \cup {"styles", "body"} |->
        IF k = "styles" THEN stylesOut
        ELSE IF k = "body" THEN bodyOut
        ELSE context[k]]

\* C5: the body and styles renders receive one and the same context, which
\* does not hold the rendered fragments; the base render receives that
\* context extended with styles and body bound to what the styles render and
\* the body render returned; buildEmail returns what the base render returned.
C5_BaseContext ==
    \A c \in Calls :
        LET s == calls[c]
            r == s.renders
        IN  /\ (Len(r) >= 1 => r[1].template = s.lookups.body.val.contents)
            /\ (Len(r) >= 2 =>
                  /\ r[2].context = r[1].context
                  /\ r[2].template = s.lookups.styles.val.contents)
            /\ (Len(r) = 3 =>
                  /\ r[3].template = s.lookups.base.val.contents
                  /\ r[3].context = Extended(r[1].context, r[2].out, r[1].out)
                  /\ (Has(r[1].context, "styles") => r[1].context.styles # r[2].out)
                  /\ (Has(r[1].context, "body") => r[1].context.body # r[1].out))
            /\ (s.build.kind = "return" =>
                  Len(r) = 3 /\ r[3].done /\ s.build.value = r[3].out)

C5_Witness ==
    \E c \in Calls :
        /\ calls[c].build.kind = "return"
        /\ Len(calls[c].renders) = 3
        /\ Has(calls[c].renders[1].context, "styles")
        /\ calls[c].renders[3].context.styles = calls[c].renders[2].out

\* buildEmail reached line 70: every fragment was found
LinkCodeResolved(s) ==
    AllLookupsResolved(s) /\ ~AbsentFragmentSeen(s)

\* C6: link-code resolution dispatches on the purpose alone: a reset code
\* for the user's identity (not the address) and no invite code for
\* PASSWORD_RECOVERY with a user; an invite code for the address and no reset
\* code for INVITATION; no call of the issuer and null for any other purpose.
\* What the issuer returns is the code handed on.
C6_LinkCodeDispatch ==
    \A c \in Calls :
        LET s == calls[c]
            q == s.codeReqs
        IN  /\ Len(q) <= 1
            /\ (LinkCodeResolved(s) /\ s.purpose = PASSWORD_RECOVERY /\ s.user # Null =>
                  /\ Len(q) = 1
                  /\ q[1].fn = "getResetPasswordCode"
                  /\ q[1].key = s.user._id
                  /\ q[1].key # s.email)
            /\ (LinkCodeResolved(s) /\ s.purpose = INVITATION =>
                  /\ Len(q) = 1
                  /\ q[1].fn = "getInviteCode"
                  /\ q[1].key = s.email)
            /\ (s.purpose \notin {PASSWORD_RECOVERY, INVITATION} =>
                  /\ q = << >>
                  /\ \A i \in 1..Len(s.settingsReqs) : s.settingsReqs[i].code = Null)
            /\ (q # << >> /\ s.settingsReqs # << >> =>
                  /\ q[1].done
                  /\ s.code = q[1].reply
                  /\ s.settingsReqs[1].code = q[1].reply)

C6_Witness ==
    \E c \in Calls :
        /\ calls[c].purpose = PASSWORD_RECOVERY
        /\ calls[c].user = User1
        /\ calls[c].email = User1.email
        /\ calls[c].settingsReqs # << >>
        /\ calls[c].code = [code |-> "reset", for |-> "us_1"]

\* the store holds an SMTP configuration that a query for the scope matches
StoreResolves(groupId) ==
    \E d \in configStore :
        /\ d.type = "smtp"
        /\ (d.scope = "global" \/ (groupId # NoGroup /\ d.scope = groupId))

\* C7 as stated: isEmailConfigured always ends in a boolean, true exactly
\* when the store resolves a configuration for the scope, whatever the
\* outcome of the lookup.
C7_NeverThrows ==
    \A c \in Calls :
        LET s == calls[c]
        IN  (s.op = "isEmailConfigured" /\ s.pc = "done") =>
                s.result = Return(StoreResolves(s.groupId))

\* C7 (amended): when the lookup resolves, isEmailConfigured returns true
\* exactly when the store resolves a configuration for the scope, and false
\* when it resolves to absent; when the lookup fails, isEmailConfigured fails
\* with the store's failure.
C7_ConfiguredIffResolved ==
    \A c \in Calls :
        LET s == calls[c]
        IN  (s.op = "isEmailConfigured" /\ s.pc = "done") =>
                /\ Len(s.queries) = 1
                /\ IF ConfigAnswer(s).st = "failed"
                   THEN s.result = Throw(ErrCollaborator("determineScopedConfig"))
                   ELSE s.result = Return(StoreResolves(s.groupId))

C7_Witness ==
    \E c \in Calls :
        /\ calls[c].op = "isEmailConfigured"
        /\ calls[c].groupId = Group1
        /\ ~StoreResolves(Group1)
        /\ calls[c].result = Return(FALSE)

\* the configuration a call built its transport session from
BuiltFrom(s) == IF s.op = "verifyConfig" THEN s.cfgArg ELSE ConfigAnswer(s).reply

\* C8: a transport session accepts an invalid certificate exactly when the
\* configuration it was built from has selfSigned set; building a session
\* leaves the process-wide TLS setting alone, so the sessions of the other
\* invocations keep validating.
C8_TlsRelaxedPerSession ==
    /\ processTls = "strict"
    /\ \A c \in Calls :
          LET s == calls[c]
          IN  s.transport # Null =>
                /\ Truthy(BuiltFrom(s), "selfSigned")
                      <=> ~ValidatesCertificates(s.transport, processTls)
                /\ Truthy(BuiltFrom(s), "selfSigned")
                      <=> (Has(s.transport.options, "tls")
                           /\ s.transport.options.tls = [rejectUnauthorized |-> FALSE])

C8_Witness ==
    \E c, d \in Calls :
        /\ calls[c].op = "sendEmail" /\ calls[c].pc = "awaitSend"
        /\ calls[d].op = "verifyConfig" /\ calls[d].pc = "awaitVerify"
        /\ BuiltFrom(calls[c]) = GroupConfig
        /\ ~ValidatesCertificates(calls[c].transport, processTls)
        /\ BuiltFrom(calls[d]) = StrictConfig
        /\ ValidatesCertificates(calls[d].transport, processTls)

\* C9: a submitted message has from and subject of the configuration the same
\* call resolved, to equal to the recipient argument and html equal to the
\* document composed in that call for its purpose, address and user; it goes
\* out on the session built from that configuration, and sendEmail returns
\* the transport's delivery result.
C9_MessageFields ==
    \A c \in Calls :
        LET s == calls[c]
        IN  \A i \in 1..Len(s.sent) :
              LET m == s.sent[i].message
                  config == ConfigAnswer(s).reply
              IN  /\ s.op = "sendEmail"
                  /\ ConfigResolvedTo(s) = {config} /\ config # Null
                  /\ m = [from |-> config.from, subject |-> config.subject,
                          to |-> s.email, html |-> s.build.value]
                  /\ s.build.kind = "return"
                  /\ s.renders[1].template = templateStore[s.purpose].contents
                  /\ s.renders[1].context.email = s.email
                  /\ s.renders[1].context.user = (IF s.user = Null THEN << >> ELSE s.user)
                  /\ s.sent[i].session = c
                  /\ s.transport.id = c
                  /\ s.transport.options.host = config.host
                  /\ s.transport.options.port = config.port
                  /\ (s.result.kind = "return" =>
                        s.sent[i].st = "delivered" /\ s.result.value = s.sent[i].reply)
                  /\ (s.pc = "done" =>
                        s.result.kind = "return" \/ s.sent[i].st = "failed")

C9_Witness ==
    \E c \in Calls :
        /\ calls[c].op = "sendEmail"
        /\ calls[c].groupId = Group1
        /\ calls[c].email = "bob@example.com"
        /\ calls[c].result.kind = "return"
        /\ calls[c].sent[1].message.from = GroupConfig.from

\* C10: a call submits at most one message and performs at most one
\* verification and one configuration lookup; a message is submitted only
\* after a configuration was resolved and the composition succeeded; a failed
\* send or verify is the failure of the call, with nothing issued after it.
C10_NoRetry ==
    \A c \in Calls :
        LET s == calls[c]
        IN  /\ Len(s.sent) <= 1
            /\ Len(s.verifies) <= 1
            /\ Len(s.queries) <= 1
            /\ (s.sent # << >> =>
                  /\ s.op = "sendEmail"
                  /\ ConfigResolvedTo(s) # {} /\ ConfigResolvedTo(s) # {Null}
                  /\ s.build.kind = "return")
            /\ (s.verifies # << >> => s.op = "verifyConfig" /\ s.queries = << >>)
            /\ (s.op = "verifyConfig" => s.sent = << >> /\ Len(s.verifies) = 1)
            /\ (s.sent # << >> /\ s.sent[1].st = "failed" =>
                  s.pc = "done" /\ s.result = Throw(ErrCollaborator("sendMail")))
            /\ (s.verifies # << >> /\ s.verifies[1].st = "failed" =>
                  s.pc = "done" /\ s.result = Throw(ErrCollaborator("verify")))
            /\ (s.pc = "done" /\ s.result.kind = "throw" =>
                  /\ \A i \in 1..Len(s.sent) : s.sent[i].st = "failed"
                  /\ \A i \in 1..Len(s.verifies) : s.verifies[i].st = "failed")

C10_Witness ==
    \E c \in Calls :
        /\ calls[c].op = "sendEmail"
        /\ Len(calls[c].sent) = 1
        /\ calls[c].sent[1].st = "failed"
        /\ calls[c].pc = "done"

\* C11: with a global and a group-scoped SMTP configuration in the store,
\* sendEmail and isEmailConfigured called with the group's scope query with
\* type SMTP and the group, and use the group's configuration for the answer,
\* the session and the message; called with no scope they query with type
\* SMTP alone and use the global configuration.
C11_GroupScopeWins ==
    \A c \in Calls :
        LET s == calls[c]
            wanted == IF s.groupId = Group1 THEN GroupConfig ELSE GlobalConfig
        IN  (/\ GlobalDoc \in configStore /\ GroupDoc \in configStore
             /\ s.op \in {"sendEmail", "isEmailConfigured"}) =>
                /\ Len(s.queries) = 1
                /\ s.queries[1].params =
                      (IF s.groupId = Group1 THEN [type |-> "smtp", group |-> Group1]
                       ELSE [type |-> "smtp"])
                /\ (s.queries[1].st = "resolved" =>
                      /\ s.queries[1].reply = wanted
                      /\ (s.op = "isEmailConfigured" => s.result = Return(TRUE))
                      /\ (s.op = "sendEmail" =>
                            /\ s.transport.options.host = wanted.host
                            /\ s.transport.options.port = wanted.port
                            /\ Has(s.transport.options, "tls")
                                  <=> Truthy(wanted, "selfSigned")
                            /\ \A i \in 1..Len(s.sent) :
                                  /\ s.sent[i].message.from = wanted.from
                                  /\ s.sent[i].message.subject = wanted.subject))

C11_Witness ==
    \E c \in Calls :
        /\ GlobalDoc \in configStore /\ GroupDoc \in configStore
        /\ calls[c].op = "sendEmail"
        /\ calls[c].groupId = Group1
        /\ calls[c].sent # << >>
        /\ calls[c].sent[1].message.from = GroupConfig.from

\* the options createSMTPTransport is to derive from a configuration
OptionsFor(config) ==
    [k \in {"port", "host", "secure"}
           \cup (IF Has(config, "auth") THEN {"auth"} ELSE {})
           \cup (IF Truthy(config, "selfSigned") THEN {"tls"} ELSE {}) |->
        CASE k = "port" -> config.port
          [] k = "host" -> config.host
          [] k = "secure" -> Truthy(config, "secure")
          [] k = "auth" -> config.auth
          [] OTHER -> [rejectUnauthorized |-> FALSE]]

\* C12: verifyConfig builds its session from the supplied configuration as
\* sendEmail builds its own (host, port, secure flag, credentials, selfSigned
\* handling), performs one verification on it and nothing else: no config,
\* template or link-code lookup, no render, no message.
C12_VerifyOnly ==
    \A c \in Calls :
        LET s == calls[c]
        IN  /\ (s.op = "verifyConfig" =>
                  /\ s.transport = [id |-> c, options |-> OptionsFor(s.cfgArg)]
                  /\ s.verifies # << >> /\ s.verifies[1].session = s.transport.id
                  /\ Len(s.verifies) = 1
                  /\ s.queries = << >>
                  /\ s.build = NotCalled
                  /\ NoComposition(s)
                  /\ s.sent = << >>
                  /\ (s.pc = "done" =>
                        \/ s.verifies[1].st = "verified" /\ s.result = Return(Undefined)
                        \/ s.verifies[1].st = "failed" /\ s.result.kind = "throw"))
            /\ (s.op = "sendEmail" /\ s.transport # Null =>
                  s.transport = [id |-> c, options |-> OptionsFor(s.config)])

C12_Witness ==
    \E c \in Calls :
        /\ calls[c].op = "verifyConfig"
        /\ calls[c].cfgArg = GroupConfig
        /\ calls[c].pc = "done"
        /\ calls[c].verifies[1].st = "verified"

LookupsIssued(s) == \E k \in Slots : s.lookups[k].st # "none"
LookupInFlight(s) == \E k \in Slots : s.lookups[k].st = "pending"
CodeInFlight(s) == \E i \in 1..Len(s.codeReqs) : ~s.codeReqs[i].done

\* C13 as stated: for a purpose that needs a code, the link-code lookup is
\* dispatched together with the three template lookups, without waiting for
\* any of them.
C13_CodeDispatchedWithLookups ==
    \A c \in Calls :
        LET s == calls[c]
        IN  (s.purpose = INVITATION /\ LookupsIssued(s)) => s.codeReqs # << >>

\* C13 (amended): the link-code lookup is dispatched only when all three
\* template lookups have completed, so it is never in flight together with a
\* template lookup; the context is built only after the three lookups and the
\* link-code lookup have completed.
C13_CodeAfterLookups ==
    \A c \in Calls :
        LET s == calls[c]
        IN  /\ ~(CodeInFlight(s) /\ LookupInFlight(s))
            /\ (s.pc = "awaitTemplates" => s.codeReqs = << >>)
            /\ (s.pc = "awaitCode" =>
                  AllLookupsResolved(s) /\ CodeInFlight(s) /\ s.context = << >>)
            /\ (s.settingsReqs # << >> \/ s.context # << >> =>
                  AllLookupsResolved(s) /\ ~CodeInFlight(s))

C13_Witness ==
    \E c \in Calls :
        /\ calls[c].purpose = INVITATION
        /\ calls[c].pc = "awaitCode"
        /\ CodeInFlight(calls[c])
        /\ AllLookupsResolved(calls[c])

\* C14 as stated: sendEmail constructs its transport session only after the
\* email has been composed successfully.
C14_TransportAfterComposition ==
    \A c \in Calls :
        LET s == calls[c]
        IN  (s.op = "sendEmail" /\ s.transport # Null) => s.build.kind = "return"

\* C14 (amended): sendEmail resolves the configuration, then constructs the
\* transport session, then composes the email, then submits: the session
\* exists exactly from the moment a configuration was resolved, before the
\* composition starts, so a call whose composition fails has constructed a
\* session and submits nothing on it.
C14_TransportBeforeComposition ==
    \A c \in Calls :
        LET s == calls[c]
        IN  s.op = "sendEmail" =>
              /\ s.transport # Null
                    <=> (ConfigResolvedTo(s) # {} /\ ConfigResolvedTo(s) # {Null})
              /\ (s.build # NotCalled => s.transport # Null)
              /\ (s.sent # << >> => s.build.kind = "return" /\ s.transport # Null)
              /\ (s.build.kind = "throw" =>
                    s.transport # Null /\ s.sent = << >> /\ s.result = s.build)

C14_Witness ==
    \E c \in Calls :
        /\ calls[c].op = "sendEmail"
        /\ calls[c].build = Throw(ErrMissingBase)
        /\ calls[c].transport # Null
        /\ calls[c].pc = "done"

\* C15 as stated: a sendEmail with a purpose outside the full purposes is
\* rejected with the unsupported-purpose failure before any I/O: no config
\* lookup, no transport session, no template or link-code lookup, no message.
C15_RejectedBeforeIO ==
    \A c \in Calls :
        LET s == calls[c]
        IN  (s.op = "sendEmail"
             /\ s.purpose \notin {INVITATION, PASSWORD_RECOVERY, WELCOME}) =>
                /\ s.queries = << >>
                /\ s.transport = Null
                /\ NoComposition(s)
                /\ s.sent = << >>
                /\ (s.pc = "done" => s.result = Throw(ErrUnsupported(s.purpose)))

\* C15 (amended): a sendEmail with a purpose outside the full purposes first
\* looks the configuration up; it fails with the store's failure if the lookup
\* fails, with configuration-not-found if it resolves to absent, and with the
\* unsupported-purpose failure, after constructing a transport session, if a
\* configuration was resolved.  It issues no template or link-code lookup, no
\* render and no message.
C15_UnsupportedAfterConfig ==
    \A c \in Calls :
        LET s == calls[c]
        IN  (s.op = "sendEmail"
             /\ s.purpose \notin {INVITATION, PASSWORD_RECOVERY, WELCOME}) =>
                /\ Len(s.queries) = 1
                /\ NoComposition(s)
                /\ s.sent = << >>
                /\ (s.pc = "done" =>
                      CASE ConfigAnswer(s).st = "failed" ->
                              /\ s.result = Throw(ErrCollaborator("determineScopedConfig"))
                              /\ s.transport = Null
                        [] ConfigAnswer(s).reply = Null ->
                              /\ s.result = Throw(ErrNoConfig)
                              /\ s.transport = Null
                        [] OTHER ->
                              /\ s.result = Throw(ErrUnsupported(s.purpose))
                              /\ s.transport # Null)

C15_Witness ==
    \E c \in Calls :
        /\ calls[c].op = "sendEmail"
        /\ calls[c].purpose = BASE
        /\ calls[c].result = Throw(ErrUnsupported(BASE))
        /\ calls[c].transport # Null
        /\ Len(calls[c].queries) = 1

StoreBindings == (CHOOSE d \in configStore : d.type = "settings").config

\* the code a composition resolved: the issuer's reply, or null without a request
ResolvedCode(s) == IF s.codeReqs = << >> THEN Null ELSE s.codeReqs[1].reply

\* C17: every render's context binds email to the recipient argument and
\* user to the supplied user record, or to an empty object without one, also
\* when the settings context binds the same names; the settings' other
\* bindings are kept; the settings context is requested once, with the
\* call's purpose and the link code resolved in the call (null when the
\* purpose needs none).
C17_ContextBindings ==
    \A c \in Calls :
        LET s == calls[c]
        IN  /\ Len(s.settingsReqs) <= 1
            /\ \A i \in 1..Len(s.settingsReqs) :
                  /\ s.settingsReqs[i] = [purpose |-> s.purpose, code |-> ResolvedCode(s)]
                  /\ (s.purpose = WELCOME => s.settingsReqs[i].code = Null)
                  /\ (s.purpose # WELCOME => s.settingsReqs[i].code # Null)
            /\ \A i \in 1..Len(s.renders) :
                  LET ctx == s.renders[i].context
                  IN  /\ Has(ctx, "email") /\ ctx.email = s.email
                      /\ Has(ctx, "user")
                      /\ ctx.user = (IF s.user = Null THEN << >> ELSE s.user)
                      /\ ctx.platformUrl = StoreBindings.platformUrl
                      /\ ctx.code = ResolvedCode(s)
                      /\ ctx.purpose = s.purpose
                      /\ DOMAIN StoreBindings \subseteq DOMAIN ctx

C17_Witness ==
    \E c \in Calls :
        /\ StoreBindings = ClashingBindings
        /\ calls[c].purpose = WELCOME
        /\ calls[c].user = Null
        /\ Len(calls[c].renders) = 3
        /\ calls[c].renders[3].context.user = << >>
        /\ calls[c].renders[3].context.email # StoreBindings.email

\* what an invocation computes from its own arguments and the store alone
AloneConfig(s) == determineScopedConfig(configStore, SmtpParams(s.groupId))

AloneCode(s) ==
    LET r == getLinkCode(s.purpose, s.email, s.user)
    IN  IF r.kind = "call" THEN IssuerReply(r) ELSE Null

AloneContext(s) ==
    BuildContext(getSettingsTemplateContext(configStore, s.purpose, AloneCode(s)),
                 s.email, s.user)

AloneHtml(s) ==
    LET ctx == AloneContext(s)
        text(p) == getTemplateByPurpose(templateStore, TYPE, p).contents
    IN  processString(text(BASE),
                      BaseContext(ctx, processString(text(STYLES), ctx),
                                       processString(text(s.purpose), ctx)))

AloneMessage(s) == BuildMessage(AloneConfig(s), s.email, AloneHtml(s))

\* C18: invocations share no mutable state: with several sendEmail,
\* verifyConfig and isEmailConfigured calls interleaved over an unchanging
\* store, each call's lookups, transport options, submitted message and
\* result are what its own arguments and the store determine, as when it runs
\* alone, and a call submits and verifies only on the session it constructed.
C18_NoSharedState ==
    /\ configStore = {GlobalDoc, GroupDoc, SettingsDoc(ClashingBindings)}
    /\ templateStore = TemplateStoreWithout({})
    /\ \A c \in Calls :
          LET s == calls[c]
          IN  /\ \A i \in 1..Len(s.queries) :
                    /\ s.queries[i].params = SmtpParams(s.groupId)
                    /\ (s.queries[i].st = "resolved" =>
                          s.queries[i].reply = AloneConfig(s))
              /\ (s.transport # Null =>
                    /\ s.op \in {"sendEmail", "verifyConfig"}
                    /\ s.transport =
                          [id |-> c,
                           options |-> OptionsFor(IF s.op = "verifyConfig"
                                                  THEN s.cfgArg ELSE AloneConfig(s))])
              /\ (s.op = "none" => s = IdleCall)
              /\ \A k \in Slots :
                    /\ (s.lookups[k].st # "none" =>
                          s.lookups[k].purpose =
                              (CASE k = "base" -> BASE [] k = "styles" -> STYLES
                                 [] OTHER -> s.purpose))
                    /\ (s.lookups[k].st = "done" =>
                          s.lookups[k].val =
                              getTemplateByPurpose(templateStore, TYPE, s.lookups[k].purpose))
              /\ \A i \in 1..Len(s.codeReqs) :
                    /\ s.codeReqs[i].key = s.email
                    /\ (s.codeReqs[i].done => s.codeReqs[i].reply = AloneCode(s))
              /\ \A i \in 1..Len(s.renders) : s.renders[i].context.email = s.email
              /\ \A i \in 1..Len(s.sent) :
                    /\ s.sent[i].session = c
                    /\ s.sent[i].message = AloneMessage(s)
              /\ \A i \in 1..Len(s.verifies) : s.verifies[i].session = c
              /\ (s.pc = "done" /\ s.result.kind = "return" =>
                    s.result =
                        Return(CASE s.op = "sendEmail" ->
                                      DeliveryInfo(createSMTPTransport(c, AloneConfig(s)),
                                                   AloneMessage(s))
                                 [] s.op = "isEmailConfigured" ->
                                      AloneConfig(s) # Null
                                 [] OTHER -> Undefined))

C18_Witness ==
    \E c, d \in Calls :
        /\ c # d
        /\ calls[c].pc = "awaitSend" /\ calls[d].pc = "awaitSend"
        /\ calls[c].groupId = Group1 /\ calls[d].groupId = NoGroup
        /\ calls[c].sent[1].session = c /\ calls[d].sent[1].session = d
        /\ calls[c].sent[1].message.from # calls[d].sent[1].message.from
        /\ calls[c].sent[1].message.to # calls[d].sent[1].message.to
        /\ calls[c].transport.options # calls[d].transport.options

\* C19: the code issuer is called only after all three template lookups of
\* the composition have completed and resolved to fragments: a composition
\* that fails with an incomplete template set, or whose template lookup
\* fails, requests neither a reset code nor an invite code; a composition
\* calls the issuer at most once.
C19_IssuerAfterFragments ==
    \A c \in Calls :
        LET s == calls[c]
        IN  /\ Len(s.codeReqs) <= 1
            /\ (s.codeReqs # << >> =>
                  \A k \in Slots : s.lookups[k].st = "done" /\ s.lookups[k].val # Null)
            /\ (s.build = Throw(ErrMissingBase) => s.codeReqs = << >>)
            /\ ((\E k \in Slots : s.lookups[k].st = "failed") =>
                  /\ s.codeReqs = << >>
                  /\ s.build = Throw(ErrCollaborator("getTemplateByPurpose")))
            /\ (AbsentFragmentSeen(s) => s.codeReqs = << >>)

C19_Witness ==
    \E c \in Calls :
        /\ calls[c].purpose \in {INVITATION, PASSWORD_RECOVERY}
        /\ calls[c].user # Null
        /\ AllLookupsResolved(calls[c])
        /\ AbsentFragmentSeen(calls[c])
        /\ calls[c].result = Throw(ErrMissingBase)
        /\ calls[c].codeReqs = << >>

\* the failures C20 lists: configuration not found, unsupported purpose,
\* incomplete template set, a propagated collaborator failure, transport failure
ListedFailures(s) ==
    {ErrNoConfig, ErrUnsupported(s.purpose), ErrMissingBase}
        \cup {ErrCollaborator(who) :
                who \in {"determineScopedConfig", "getTemplateByPurpose", "getLinkCode",
                         "getSettingsTemplateContext", "processString", "sendMail"}}

\* C20: a sendEmail call that has terminated ended in exactly one outcome:
\* the transport's delivery result of the message it submitted, or one failure
\* among configuration-not-found, unsupported purpose, incomplete template
\* set, a propagated collaborator failure and transport failure; it never
\* ends with a delivery result without having submitted a message.
C20_ListedOutcomes ==
    \A c \in Calls :
        LET s == calls[c]
        IN  (s.op = "sendEmail" /\ s.pc = "done") =>
                \/ /\ s.result.kind = "return"
                   /\ Len(s.sent) = 1
                   /\ s.sent[1].st = "delivered"
                   /\ s.result.value = s.sent[1].reply
                \/ /\ s.result.kind = "throw"
                   /\ s.result.error \in ListedFailures(s)

====
